---- MODULE Spec2Model ----
(***************************************************************************)
(* Model of Learning-DSA-with-Python:                                      *)
(*   data_structures/arrays.py : DynamicArray, binary_search, two_sum      *)
(*   algorithms/sorting.py     : bubble/insertion/merge/quick sort         *)
(* Python indices are 0-based; a Python list is a TLA+ sequence, so the    *)
(* Python element a[i] is the sequence element a[i + 1].                   *)
(***************************************************************************)
EXTENDS Integers, Sequences, FiniteSets, TLC

\* ---- bounds of the model ----
MaxVal == 2
MaxSize == 5
MaxInitCap == 3
MaxLen == 4
MaxKey == 3

VARIABLES array, size, capacity, initCapacity, appendRun, call,
          arr, target, fn, result

vars == <<array, size, capacity, initCapacity, appendRun, call,
          arr, target, fn, result>>

\* ------------------------------------------------------------------------
\* DynamicArray
\* ------------------------------------------------------------------------
None == 0

Values == 1..MaxVal

Indexes == (0 - MaxSize - 1)..(MaxSize + 1)

\* [None] * n   (the empty list when n <= 0)
NewArray(n) == [i \in 1..n |-> None]

\* __init__: the object's three fields
DynamicArray(cap) == [array |-> NewArray(cap), size |-> 0, capacity |-> cap]

\* a call that raises: the fields s had when the exception left the method
Raise(s, error) ==
    [array |-> s.array, size |-> s.size, capacity |-> s.capacity,
     outcome |-> error, ret |-> None, resize |-> "none"]

\* a call that returns normally
Return(s, value, resized) ==
    [array |-> s.array, size |-> s.size, capacity |-> s.capacity,
     outcome |-> "ok", ret |-> value, resize |-> resized]

\* for i in range(self._size): new_array[i] = self._array[i]
RECURSIVE CopyLoop(_, _, _, _)
CopyLoop(new_array, old, i, n) ==
    IF i >= n THEN new_array
    ELSE CopyLoop([new_array EXCEPT ![i + 1] = old[i + 1]], old, i + 1, n)

resize(s, new_capacity) ==
    [array |-> CopyLoop(NewArray(new_capacity), s.array, 0, s.size),
     size |-> s.size,
     capacity |-> new_capacity]

GrowCapacityByOne(cap) == cap + 1

\* 2 * self._capacity
GrowCapacity(cap) == 2 * cap

getitem(s, index) ==
    IF ~(0 <= index /\ index < s.size) THEN Raise(s, "IndexError")
    ELSE Return(s, s.array[index + 1], "none")

setitem(s, index, value) ==
    IF ~(0 <= index /\ index < s.size) THEN Raise(s, "IndexError")
    ELSE Return([s EXCEPT !.array[index + 1] = value], None, "none")

append(s, value) ==
    LET full == s.size = s.capacity
        s1 == IF full THEN resize(s, GrowCapacity(s.capacity)) ELSE s
    IN  IF s1.size < Len(s1.array)
        THEN Return([array |-> [s1.array EXCEPT ![s1.size + 1] = value],
                     size |-> s1.size + 1,
                     capacity |-> s1.capacity],
                    None, IF full THEN "grow" ELSE "none")
        ELSE [Raise(s1, "IndexError") EXCEPT
                 !.resize = IF full THEN "grow" ELSE "none"]

RECURSIVE ShiftRightAscending(_, _, _)
ShiftRightAscending(a, i, index) ==
    IF i <= index THEN a
    ELSE [ShiftRightAscending(a, i - 1, index) EXCEPT
             ![i + 1] = ShiftRightAscending(a, i - 1, index)[i]]

\* for i in range(self._size, index, -1): self._array[i] = self._array[i - 1]
RECURSIVE ShiftRight(_, _, _)
ShiftRight(a, i, index) ==
    IF i <= index THEN a
    ELSE ShiftRight([a EXCEPT ![i + 1] = a[i]], i - 1, index)

insertResizeFirst(s, index, value) ==
    LET full == s.size = s.capacity
        s1 == IF full THEN resize(s, GrowCapacity(s.capacity)) ELSE s
    IN  IF ~(0 <= index /\ index <= s.size) THEN Raise(s1, "IndexError")
        ELSE Return([array |-> [ShiftRight(s1.array, s1.size, index)
                                    EXCEPT ![index + 1] = value],
                     size |-> s1.size + 1,
                     capacity |-> s1.capacity],
                    None, IF full THEN "grow" ELSE "none")

insert(s, index, value) ==
    IF ~(0 <= index /\ index <= s.size) THEN Raise(s, "IndexError")
    ELSE LET full == s.size = s.capacity
             s1 == IF full THEN resize(s, GrowCapacity(s.capacity)) ELSE s
         IN  IF s1.size < Len(s1.array)
             THEN Return([array |-> [ShiftRight(s1.array, s1.size, index)
                                         EXCEPT ![index + 1] = value],
                          size |-> s1.size + 1,
                          capacity |-> s1.capacity],
                         None, IF full THEN "grow" ELSE "none")
             ELSE [Raise(s1, "IndexError") EXCEPT
                      !.resize = IF full THEN "grow" ELSE "none"]

\* for i in range(index, self._size - 1): self._array[i] = self._array[i + 1]
RECURSIVE ShiftLeft(_, _, _)
ShiftLeft(a, i, last) ==
    IF i >= last THEN a
    ELSE ShiftLeft([a EXCEPT ![i + 1] = a[i + 2]], i + 1, last)

ShrinkNeededAtZero(sz, cap) == sz = cap \div 4

ShrinkNeededAtHalf(sz, cap) == sz > 0 /\ sz = cap \div 2

\* self._size > 0 and self._size == self._capacity // 4
ShrinkNeeded(sz, cap) == sz > 0 /\ sz = cap \div 4

pop(s, index) ==
    IF s.size = 0 THEN Raise(s, "IndexError")
    ELSE LET idx == IF index < 0 THEN s.size + index ELSE index
         IN  IF ~(0 <= idx /\ idx < s.size) THEN Raise(s, "IndexError")
             ELSE LET value == s.array[idx + 1]
                      shifted == ShiftLeft(s.array, idx, s.size - 1)
                      s1 == [array |-> [shifted EXCEPT ![s.size] = None],
                             size |-> s.size - 1,
                             capacity |-> s.capacity]
                      shrink == ShrinkNeeded(s1.size, s1.capacity)
                      s2 == IF shrink THEN resize(s1, s1.capacity \div 2)
                            ELSE s1
                  IN  Return(s2, value, IF shrink THEN "shrink" ELSE "none")

\* for i in range(self._size): if self._array[i] == value: ...
\* the first such i, or size when the loop runs to its end
RECURSIVE FindFirst(_, _, _, _)
FindFirst(a, value, i, n) ==
    IF i >= n THEN n
    ELSE IF a[i + 1] = value THEN i
    ELSE FindFirst(a, value, i + 1, n)

remove(s, value) ==
    LET i == FindFirst(s.array, value, 0, s.size)
    IN  IF i < s.size THEN [pop(s, i) EXCEPT !.ret = None]
        ELSE Raise(s, "ValueError")

\* the object as the methods see it
Self == [array |-> array, size |-> size, capacity |-> capacity]

NoCall ==
    [op |-> "init", index |-> 0, value |-> None,
     outcome |-> "ok", ret |-> None, resize |-> "none"]

\* one method call: r is what the method left behind
Do(op, index, value, r) ==
    /\ array' = r.array
    /\ size' = r.size
    /\ capacity' = r.capacity
    /\ call' = [op |-> op, index |-> index, value |-> value,
                outcome |-> r.outcome, ret |-> r.ret, resize |-> r.resize]
    /\ appendRun' = IF op = "append" /\ appendRun >= 0
                    THEN appendRun + 1 ELSE 0 - 1
    /\ UNCHANGED <<initCapacity, arr, target, fn, result>>

CallGet ==
    \E index \in Indexes : Do("get", index, None, getitem(Self, index))

CallSet ==
    \E index \in Indexes, value \in Values :
        Do("set", index, value, setitem(Self, index, value))

CallAppend ==
    /\ size < MaxSize
    /\ appendRun < MaxSize
    /\ \E value \in Values : Do("append", 0, value, append(Self, value))

CallInsert ==
    /\ size < MaxSize
    /\ \E index \in Indexes, value \in Values :
           Do("insert", index, value, insert(Self, index, value))

CallRemove ==
    \E value \in Values : Do("remove", 0, value, remove(Self, value))

CallPop ==
    \E index \in Indexes : Do("pop", index, None, pop(Self, index))

InitObject(caps) ==
    /\ initCapacity \in caps
    /\ array = DynamicArray(initCapacity).array
    /\ size = DynamicArray(initCapacity).size
    /\ capacity = DynamicArray(initCapacity).capacity
    /\ appendRun = 0
    /\ call = NoCall
    /\ arr = <<>>
    /\ target = 0
    /\ fn = "none"
    /\ result = <<>>

\* arrays constructed with a capacity the data model allows
Init == InitObject(1..MaxInitCap)

\* arrays constructed with any integer the constructor accepts
InitCtor == InitObject((0 - 1)..MaxInitCap)

Next == CallGet \/ CallSet \/ CallAppend \/ CallInsert \/ CallRemove \/ CallPop

Spec == Init /\ [][Next]_vars

SpecCtor == InitCtor /\ [][Next]_vars

\* ------------------------------------------------------------------------
\* Sorting functions.  An element carries a key, which the comparison
\* operators <, <=, >, == of the element look at, and an identity id, the
\* position it had in the input.
\* ------------------------------------------------------------------------
Key(x) == x.key

\* arr[j], arr[j + 1] = arr[j + 1], arr[j]
Swap(a, j) == [a EXCEPT ![j + 1] = a[j + 2], ![j + 2] = a[j + 1]]

\* for j in range(0, n - i - 1): if arr[j] > arr[j + 1]: swap
RECURSIVE BubblePass(_, _, _, _)
BubblePass(a, j, limit, swapped) ==
    IF j >= limit THEN [arr |-> a, swapped |-> swapped]
    ELSE IF Key(a[j + 1]) > Key(a[j + 2])
         THEN BubblePass(Swap(a, j), j + 1, limit, TRUE)
         ELSE BubblePass(a, j + 1, limit, swapped)

\* for i in range(n): ...; if not swapped: break
RECURSIVE BubbleLoop(_, _, _)
BubbleLoop(a, i, n) ==
    IF i >= n THEN a
    ELSE LET pass == BubblePass(a, 0, n - i - 1, FALSE)
         IN  IF ~pass.swapped THEN pass.arr
             ELSE BubbleLoop(pass.arr, i + 1, n)

bubble_sort(a) == BubbleLoop(a, 0, Len(a))

\* while j >= 0 and arr[j] > key: arr[j + 1] = arr[j]; j -= 1
\* arr[j + 1] = key
RECURSIVE InsertKey(_, _, _)
InsertKey(a, j, key) ==
    IF j >= 0 /\ Key(a[j + 1]) > Key(key)
    THEN InsertKey([a EXCEPT ![j + 2] = a[j + 1]], j - 1, key)
    ELSE [a EXCEPT ![j + 2] = key]

\* for i in range(1, n): key = arr[i]; j = i - 1; ...
RECURSIVE InsertionLoop(_, _, _)
InsertionLoop(a, i, n) ==
    IF i >= n THEN a
    ELSE InsertionLoop(InsertKey(a, i - 1, a[i + 1]), i + 1, n)

insertion_sort(a) == InsertionLoop(a, 1, Len(a))

\* a[lo:hi]
Slice(a, lo, hi) == [k \in 1..(hi - lo) |-> a[lo + k]]

RECURSIVE MergeLoopStrict(_, _, _, _, _)
MergeLoopStrict(left, right, i, j, res) ==
    IF i < Len(left) /\ j < Len(right)
    THEN IF Key(left[i + 1]) < Key(right[j + 1])
         THEN MergeLoopStrict(left, right, i + 1, j, Append(res, left[i + 1]))
         ELSE MergeLoopStrict(left, right, i, j + 1, Append(res, right[j + 1]))
    ELSE res \o Slice(left, i, Len(left)) \o Slice(right, j, Len(right))

\* while i < len(left) and j < len(right): ...
\* result.extend(left[i:]); result.extend(right[j:])
RECURSIVE MergeLoop(_, _, _, _, _)
MergeLoop(left, right, i, j, res) ==
    IF i < Len(left) /\ j < Len(right)
    THEN IF Key(left[i + 1]) <= Key(right[j + 1])
         THEN MergeLoop(left, right, i + 1, j, Append(res, left[i + 1]))
         ELSE MergeLoop(left, right, i, j + 1, Append(res, right[j + 1]))
    ELSE res \o Slice(left, i, Len(left)) \o Slice(right, j, Len(right))

merge(left, right) == MergeLoop(left, right, 0, 0, <<>>)

RECURSIVE merge_sort(_)
merge_sort(a) ==
    IF Len(a) <= 1 THEN a
    ELSE LET mid == Len(a) \div 2
         IN  merge(merge_sort(Slice(a, 0, mid)),
                   merge_sort(Slice(a, mid, Len(a))))

\* sorted([arr[0], arr[len(arr)//2], arr[-1]])[1]
MedianOfThree(a) ==
    insertion_sort(<<a[1], a[(Len(a) \div 2) + 1], a[Len(a)]>>)[2]

\* [x for x in arr if x < pivot]
Less(a, pivot) == SelectSeq(a, LAMBDA x : Key(x) < Key(pivot))

EqualPivotOnly(a, pivot) == <<pivot>>

\* [x for x in arr if x == pivot]
Equal(a, pivot) == SelectSeq(a, LAMBDA x : Key(x) = Key(pivot))

\* [x for x in arr if x > pivot]
Greater(a, pivot) == SelectSeq(a, LAMBDA x : Key(x) > Key(pivot))

RECURSIVE quick_sort(_)
quick_sort(a) ==
    IF Len(a) <= 1 THEN a
    ELSE LET pivot == MedianOfThree(a)
         IN  quick_sort(Less(a, pivot)) \o Equal(a, pivot)
                 \o quick_sort(Greater(a, pivot))

\* ------------------------------------------------------------------------
\* Search functions
\* ------------------------------------------------------------------------
NotFound == 0 - 1

RECURSIVE BinaryLoopStrict(_, _, _, _)
BinaryLoopStrict(a, t, left, right) ==
    IF left < right
    THEN LET mid == left + ((right - left) \div 2)
         IN  IF a[mid + 1] = t THEN mid
             ELSE IF a[mid + 1] < t
                  THEN BinaryLoopStrict(a, t, mid + 1, right)
                  ELSE BinaryLoopStrict(a, t, left, mid - 1)
    ELSE NotFound

\* while left <= right: mid = left + (right - left) // 2; ...
RECURSIVE BinaryLoop(_, _, _, _)
BinaryLoop(a, t, left, right) ==
    IF left <= right
    THEN LET mid == left + ((right - left) \div 2)
         IN  IF a[mid + 1] = t THEN mid
             ELSE IF a[mid + 1] < t
                  THEN BinaryLoop(a, t, mid + 1, right)
                  ELSE BinaryLoop(a, t, left, mid - 1)
    ELSE NotFound

binary_search(a, t) == BinaryLoop(a, t, 0, Len(a) - 1)

\* two_sum's "return None"
NoPair == <<>>

\* seen = {}
EmptyDict == [k \in {} |-> 0]

StoreIfAbsent(seen, k, v) ==
    [x \in (DOMAIN seen) \cup {k} |-> IF x \in DOMAIN seen THEN seen[x] ELSE v]

\* seen[num] = i
Store(seen, k, v) ==
    [x \in (DOMAIN seen) \cup {k} |-> IF x = k THEN v ELSE seen[x]]

\* for i, num in enumerate(arr): ...
RECURSIVE TwoSumLoop(_, _, _, _)
TwoSumLoop(a, t, i, seen) ==
    IF i >= Len(a) THEN NoPair
    ELSE LET num == a[i + 1]
             complement == t - num
         IN  IF complement \in DOMAIN seen THEN <<seen[complement], i>>
             ELSE TwoSumLoop(a, t, i + 1, Store(seen, num, i))

two_sum(a, t) == TwoSumLoop(a, t, 0, EmptyDict)

\* ------------------------------------------------------------------------
\* Calls of the pure functions on bounded inputs
\* ------------------------------------------------------------------------
Keys == 1..MaxKey

KeySeqs == UNION {[1..n -> Keys] : n \in 0..MaxLen}

Targets == 0..(2 * MaxKey + 1)

\* the elements of a sort input: key and position of origin
Items(ks) == [i \in 1..Len(ks) |-> [key |-> ks[i], id |-> i]]

InitFunction(inputs, targets) ==
    /\ arr \in inputs
    /\ target \in targets
    /\ fn = "none"
    /\ result = <<>>
    /\ initCapacity = 1
    /\ array = DynamicArray(1).array
    /\ size = 0
    /\ capacity = 1
    /\ appendRun = 0
    /\ call = NoCall

Apply(name, value) ==
    /\ fn = "none"
    /\ fn' = name
    /\ result' = value
    /\ UNCHANGED <<arr, target, array, size, capacity, initCapacity,
                   appendRun, call>>

BubbleSort == Apply("bubble_sort", bubble_sort(arr))

InsertionSort == Apply("insertion_sort", insertion_sort(arr))

MergeSort == Apply("merge_sort", merge_sort(arr))

QuickSort == Apply("quick_sort", quick_sort(arr))

BinarySearch == Apply("binary_search", binary_search(arr, target))

TwoSum == Apply("two_sum", two_sum(arr, target))

InitSort == InitFunction({Items(ks) : ks \in KeySeqs}, {0})

NextSort == BubbleSort \/ InsertionSort \/ MergeSort \/ QuickSort

SpecSort == InitSort /\ [][NextSort]_vars

InitSearch == InitFunction(KeySeqs, Targets)

NextSearch == BinarySearch \/ TwoSum

SpecSearch == InitSearch /\ [][NextSearch]_vars

\* ------------------------------------------------------------------------
\* Properties
\* ------------------------------------------------------------------------

\* C1: for an array created with capacity >= 1, after every sequence of
\* calls (failing ones included) capacity >= 1 and 0 <= size <= capacity.
C1_SizeWithinCapacity == capacity >= 1 /\ 0 <= size /\ size <= capacity

\* a pop or remove has just halved the capacity of an array that had grown
C1_Witness ==
    /\ call.op \in {"pop", "remove"}
    /\ call.resize = "shrink"
    /\ size >= 1
    /\ capacity >= initCapacity

\* the logical contents: the elements at indices [0, size)
Contents == [i \in 1..size |-> array[i]]

\* s without its k-th element (k counted from 1)
WithoutAt(s, k) == [i \in 1..(Len(s) - 1) |-> IF i < k THEN s[i] ELSE s[i + 1]]

\* s with v placed before its k-th element (k counted from 1)
WithAt(s, k, v) ==
    [i \in 1..(Len(s) + 1) |->
        IF i < k THEN s[i] ELSE IF i = k THEN v ELSE s[i - 1]]

\* the position (counted from 1) pop(index) removes from a list of length n
Resolved(index, n) == IF index < 0 THEN n + index + 1 ELSE index + 1

\* what the reference sequence holds after call c was made on "before"
Reference(before, c) ==
    CASE c.outcome # "ok" -> before
      [] c.op = "append" -> before \o <<c.value>>
      [] c.op = "insert" -> WithAt(before, c.index + 1, c.value)
      [] c.op = "pop" -> WithoutAt(before, Resolved(c.index, Len(before)))
      [] c.op = "remove" ->
            WithoutAt(before,
                      CHOOSE k \in 1..Len(before) :
                          /\ before[k] = c.value
                          /\ \A m \in 1..(k - 1) : before[m] # c.value)
      [] c.op = "set" -> [before EXCEPT ![c.index + 1] = c.value]
      [] OTHER -> before

\* C2: every call changes the logical contents exactly as the same call
\* changes an abstract reference sequence, across every resize, and pop
\* returns the element it deleted.
C2_ContentsFollowReference ==
    [][/\ Contents' = Reference(Contents, call')
       /\ (call'.op = "pop" /\ call'.outcome = "ok")
              => call'.ret = Contents[Resolved(call'.index, size)]]_vars

\* an insert in the middle of a full array has just doubled the capacity
C2_Witness ==
    /\ call.op = "insert"
    /\ call.resize = "grow"
    /\ call.index >= 1
    /\ call.index + 2 < size
    /\ \E i \in 1..size : array[i] # array[1]

\* C3: after k consecutive appends to a new array of initial capacity c0,
\* length() == k and the capacity is c0 * 2^j for the smallest j >= 0 with
\* c0 * 2^j >= k.
C3_AppendsDoubleFromInitial ==
    appendRun >= 0 =>
        /\ size = appendRun
        /\ \E j \in 0..MaxSize :
              /\ capacity = initCapacity * (2 ^ j)
              /\ capacity >= appendRun
              /\ \A i \in 0..(j - 1) : initCapacity * (2 ^ i) < appendRun

\* the repository's test: capacity 2, three appends, capacity 4
C3_Witness == appendRun = 3 /\ initCapacity = 2 /\ capacity = 4

\* the calls the contract rejects, on an array of size sz holding a
Rejected(c, sz, a) ==
    CASE c.op \in {"get", "set"} -> ~(0 <= c.index /\ c.index < sz)
      [] c.op = "insert" -> ~(0 <= c.index /\ c.index <= sz)
      [] c.op = "pop" -> sz = 0 \/ Resolved(c.index, sz) \notin 1..sz
      [] c.op = "remove" -> \A i \in 1..sz : a[i] # c.value
      [] OTHER -> FALSE

\* C4: exactly the rejected calls raise (IndexError; ValueError for remove),
\* and a call that raises leaves size, capacity and the buffer unchanged.
C4_RejectedCallsChangeNothing ==
    [][/\ (call'.outcome # "ok") <=> Rejected(call', size, array)
       /\ (call'.outcome # "ok") =>
              /\ call'.outcome = IF call'.op = "remove" THEN "ValueError"
                                 ELSE "IndexError"
              /\ array' = array
              /\ size' = size
              /\ capacity' = capacity]_vars

\* an insert has just been rejected on a full, non-empty array
C4_Witness ==
    /\ call.op = "insert"
    /\ call.outcome = "IndexError"
    /\ size = capacity
    /\ size >= 2

\* position j (0-based) completes a pair: an earlier element is target - a[j]
Completes(a, t, j) == \E i \in 0..(j - 1) : a[i + 1] + a[j + 1] = t

\* the smallest position that completes a pair
FirstCompleting(a, t) ==
    CHOOSE j \in 0..(Len(a) - 1) :
        /\ Completes(a, t, j)
        /\ \A m \in 0..(j - 1) : ~Completes(a, t, m)

\* the positions before j that hold v
Holding(a, v, j) == {i \in 0..(j - 1) : a[i + 1] = v}

\* C5 as stated: two_sum returns [i, j], j the smallest position completing
\* a pair and i the FIRST position holding target - seq[j]; None when no
\* two distinct positions sum to target.
C5_FirstIndexKept ==
    fn = "two_sum" =>
        IF \E j \in 0..(Len(arr) - 1) : Completes(arr, target, j)
        THEN LET j == FirstCompleting(arr, target)
                 held == Holding(arr, target - arr[j + 1], j)
             IN  result = <<CHOOSE i \in held : \A m \in held : i <= m, j>>
        ELSE result = NoPair

\* C5 amended: two_sum returns [i, j], j the smallest position completing a
\* pair and i the LAST position before j holding target - seq[j]; None when
\* no two distinct positions sum to target.
C5_LastIndexKept ==
    fn = "two_sum" =>
        IF \E j \in 0..(Len(arr) - 1) : Completes(arr, target, j)
        THEN LET j == FirstCompleting(arr, target)
                 held == Holding(arr, target - arr[j + 1], j)
             IN  result = <<CHOOSE i \in held : \A m \in held : i >= m, j>>
        ELSE result = NoPair

\* two_sum has returned a pair whose first value occurs more than once
\* before the second position
C5_Witness ==
    /\ fn = "two_sum"
    /\ result # NoPair
    /\ Cardinality(Holding(arr, arr[result[1] + 1], result[2])) >= 2

Sorts == {"bubble_sort", "insertion_sort", "merge_sort", "quick_sort"}

NonDescending(s) == \A i \in 1..(Len(s) - 1) : Key(s[i]) <= Key(s[i + 1])

Count(s, x) == Cardinality({i \in 1..Len(s) : s[i] = x})

KeyCount(s, k) == Cardinality({i \in 1..Len(s) : Key(s[i]) = k})

IsPermutation(s, t) ==
    /\ Len(s) = Len(t)
    /\ \A i \in 1..Len(t) : Count(s, t[i]) = Count(t, t[i])
    /\ \A k \in Keys : KeyCount(s, k) = KeyCount(t, k)

\* C6: for each of the four sorts the result is non-descending and is a
\* permutation of the input (same multiset, same length).
C6_SortedPermutation ==
    fn \in Sorts => NonDescending(result) /\ IsPermutation(result, arr)

\* quick_sort has reordered an input with a repeated key
C6_Witness ==
    /\ fn = "quick_sort"
    /\ Len(arr) >= 3
    /\ result # arr
    /\ \E i, j \in 1..Len(arr) : i < j /\ Key(arr[i]) = Key(arr[j])

\* C7: bubble_sort, insertion_sort and merge_sort are stable: elements with
\* equal keys appear in the result in the order they had in the input.
C7_Stable ==
    fn \in {"bubble_sort", "insertion_sort", "merge_sort"} =>
        \A i, j \in 1..Len(result) :
            (i < j /\ Key(result[i]) = Key(result[j]))
                => result[i].id < result[j].id

\* merge_sort has moved a smaller key from between two equal keys
C7_Witness ==
    /\ fn = "merge_sort"
    /\ result # arr
    /\ \E i, j \in 1..Len(arr) :
          /\ i + 1 < j
          /\ Key(arr[i]) = Key(arr[j])
          /\ Key(arr[i + 1]) < Key(arr[i])

Ascending(a) == \A i \in 1..(Len(a) - 1) : a[i] <= a[i + 1]

\* C8: on an ascending sequence binary_search returns an index holding
\* target whenever target occurs, and -1 exactly when it does not.
C8_BinarySearchFinds ==
    (fn = "binary_search" /\ Ascending(arr)) =>
        IF \E i \in 1..Len(arr) : arr[i] = target
        THEN result \in 0..(Len(arr) - 1) /\ arr[result + 1] = target
        ELSE result = NotFound

\* binary_search has found a target at the first or last position of an
\* ascending sequence of at least three elements
C8_Witness ==
    /\ fn = "binary_search"
    /\ Ascending(arr)
    /\ Len(arr) >= 3
    /\ result \in {0, Len(arr) - 1}
    /\ arr[1] < arr[Len(arr)]

\* C9: every constructed array is empty, has capacity >= 1 and accepts a
\* following append (a capacity of 0 or less is rejected or clamped).
C9_ConstructedCapacityPositive ==
    /\ call.op = "init" => (size = 0 /\ capacity >= 1)
    /\ (call.op = "append" /\ appendRun = 1) => call.outcome = "ok"

\* C10: a call that doubles the capacity is never immediately followed by
\* one that halves it, and a call that halves it is never immediately
\* followed by one that doubles it.
C10_NoThrashing ==
    [][/\ ~(call.resize = "grow" /\ call'.resize = "shrink")
       /\ ~(call.resize = "shrink" /\ call'.resize = "grow")]_vars

\* a pop has just halved a capacity that an earlier call had doubled
C10_Witness ==
    /\ call.resize = "shrink"
    /\ call.op = "pop"
    /\ capacity > initCapacity

====
